---- MODULE Spec2Model ----
(***************************************************************************)
(* Hourly raffle backend (src/main.py, src/schemas.py).                    *)
(*                                                                         *)
(* The store holds two collections, "entry" and "draw", kept here as       *)
(* sequences in insertion order (find_one and update_one act on the first  *)
(* matching document).  The payment provider holds checkout sessions.      *)
(* Every request is a unit of work of its own: a request slot p runs one   *)
(* handler at a time, one store call, provider call or clock read per      *)
(* step, and the slots interleave freely.                                  *)
(*                                                                         *)
(* Instants are minutes since 2024-06-01T00:00Z.                           *)
(***************************************************************************)
EXTENDS Integers, Sequences, FiniteSets, TLC

VARIABLES clock, gate, db, entry, draw, sessions, pc, loc, resp

vars == <<clock, gate, db, entry, draw, sessions, pc, loc, resp>>

---------------------------------------------------------------------------
(* Bounds of the model *)

\* hours the clock may advance past the first one
MaxTicks == 1
\* documents the "entry" collection may hold
MaxEntries == 2
\* documents the "draw" collection may hold
MaxDraws == 2
\* checkout sessions the payment provider may hold
MaxSessions == 1

\* request slots: at most this many requests are in flight together
Procs == {"r1", "r2"}

\* request bodies (CreateEntryRequest)
Payloads ==
  { [name |-> "Ann", email |-> "a@x.com"],
    [name |-> "Bob", email |-> "b@x.com"] }

\* the instant the service starts at: 2024-06-01T23:30Z
StartInstant == 23 * 60 + 30

\* quarter-hours covered by the instants the clock functions are applied to
ClockSpan == 68
\* those instants: 2024-06-01T08:30Z and every quarter-hour after it
ClockInstants == { 8 * 60 + 30 + 15 * k : k \in 0 .. ClockSpan }

---------------------------------------------------------------------------
(* Values *)

\* Python's None, for an absent number
None == -1
\* Python's None, for an absent string
NoStr == "None"

PRIZE == 1000

---------------------------------------------------------------------------
(* Clock / draw identity *)

\* a number as strftime prints it: decimal digits, zero-padded to width w
RECURSIVE Pad(_, _)
Pad(n, w) == IF w = 0 THEN <<>> ELSE Pad(n \div 10, w - 1) \o <<n % 10>>

\* dt.strftime("%Y%m%d%H"): the token YYYYMMDDHH as the string of its digits
DrawIdToken(dt) ==
  LET day  == 1 + (dt \div (24 * 60))
      hour == (dt % (24 * 60)) \div 60
  IN  Pad(2024, 4) \o Pad(6, 2) \o Pad(day, 2) \o Pad(hour, 2)

\* a token without its day of the month: "%Y%m%H"
current_draw_id_no_day(dt) ==
  LET hour == (dt % (24 * 60)) \div 60
  IN  2024 * 10000 + 6 * 100 + hour

\* dt.strftime("%Y%m%d%H"): the token YYYYMMDDHH, read as a number
current_draw_id(dt) ==
  LET day  == 1 + (dt \div (24 * 60))
      hour == (dt % (24 * 60)) \div 60
  IN  2024 * 1000000 + 6 * 10000 + day * 100 + hour

\* now.replace(minute=0, second=0, microsecond=0), and that plus one hour
hour_window(dt) ==
  LET start == dt - (dt % 60)
  IN  [start |-> start, end |-> start + 60]

---------------------------------------------------------------------------
(* The store *)

\* the positions of a collection, in insertion order
Ids(coll) == 1 .. Len(coll)

Min(S) == CHOOSE x \in S : \A y \in S : x <= y

\* db["entry"].find_one({"draw_id": d, "email": e}): the _id found, or None
FindEntry(d, e) ==
  LET hits == { i \in Ids(entry) : entry[i].draw_id = d /\ entry[i].email = e }
  IN  IF hits = {} THEN None ELSE Min(hits)

\* list(db["entry"].find({"draw_id": d})): the _ids, in insertion order
EntriesOf(d) == { i \in Ids(entry) : entry[i].draw_id = d }

\* db["entry"].count_documents({"draw_id": d})
CountEntries(d) == Cardinality(EntriesOf(d))

\* coll.find_one({"draw_id": d}): the position of the first match, or None
FindIn(coll, d) ==
  LET hits == { i \in Ids(coll) : coll[i].draw_id = d }
  IN  IF hits = {} THEN None ELSE Min(hits)

\* db["draw"].find_one({"draw_id": d})
FindDraw(d) == FindIn(draw, d)

\* create_document("entry", EntrySchema(name, email, draw_id)): insert_one
NewEntry(n, e, d) == [name |-> n, email |-> e, draw_id |-> d]

create_entry(n, e, d) == Append(entry, NewEntry(n, e, d))

\* DrawSchema(draw_id, starts_at, ends_at, prize, status="open", entries_count=0)
NewDraw(d, w) ==
  [draw_id |-> d, starts_at |-> w.start, ends_at |-> w.end, prize |-> PRIZE,
   status |-> "open", entries_count |-> 0,
   winner_entry_id |-> None, winner_name |-> NoStr, winner_email |-> NoStr]

\* the document an upsert inserts when nothing matches: the filter's draw_id
BareDraw(d) ==
  [draw_id |-> d, starts_at |-> None, ends_at |-> None, prize |-> None,
   status |-> NoStr, entries_count |-> None,
   winner_entry_id |-> None, winner_name |-> NoStr, winner_email |-> NoStr]

\* $set of update_one: the fields of upd replace those of doc
SetFields(doc, upd) ==
  [f \in DOMAIN doc |-> IF f \in DOMAIN upd THEN upd[f] ELSE doc[f]]

\* db["draw"].update_one({"draw_id": d}, {"$set": upd}, upsert=True)
update_draw(d, upd) ==
  LET i == FindDraw(d)
  IN  IF i = None
      THEN Append(draw, SetFields(BareDraw(d), upd))
      ELSE [draw EXCEPT ![i] = SetFields(draw[i], upd)]

---------------------------------------------------------------------------
(* Requests *)

\* the locals of a handler, before it has set any
NoLoc ==
  [op |-> NoStr, draw_id |-> None, start |-> None, end |-> None,
   name |-> NoStr, email |-> NoStr, sid |-> None,
   entries |-> {}, winner |-> None, existing |-> NoStr, count |-> None]

\* no response yet
NoResp ==
  [code |-> None, entry_id |-> None, draw_id |-> None,
   winner_name |-> NoStr, winner_email |-> NoStr,
   status |-> NoStr, entries_count |-> None,
   starts_at |-> None, ends_at |-> None, last_winner |-> <<>>, sid |-> None]

\* a response with the fields of r (its status code among them)
Reply(r) ==
  [f \in DOMAIN NoResp |-> IF f \in DOMAIN r THEN r[f] ELSE NoResp[f]]

\* the payment gate never seen as configured
PaymentsOff == FALSE

\* bool(STRIPE_SECRET_KEY and stripe)
PaymentsEnabled == gate

\* request p moves to pc q with locals l and response r
Step(p, q, l, r) ==
  /\ pc' = [pc EXCEPT ![p] = q]
  /\ loc' = [loc EXCEPT ![p] = l]
  /\ resp' = [resp EXCEPT ![p] = r]

\* request p ends with response r
Finish(p, r) == Step(p, "done", loc[p], r)

\* request p goes on to pc q with locals l
Goto(p, q, l) == Step(p, q, l, NoResp)

\* requests in flight that may still insert an Entry
EntryWriters ==
  { q \in Procs : pc[q] \in {"enter_find", "enter_create", "confirm_retrieve",
                             "confirm_find", "confirm_create"} }

\* requests in flight that may still insert a Draw
DrawWriters ==
  { q \in Procs : \/ pc[q] = "status_create"
                  \/ /\ pc[q] \in {"status_window", "status_find", "close_window",
                                   "close_load", "close_update"}
                     /\ FindDraw(loc[q].draw_id) = None }

\* requests in flight that may still create a checkout session
SessionWriters == { q \in Procs : pc[q] \in {"checkout_find", "checkout_create"} }

EntryRoom == Len(entry) + Cardinality(EntryWriters) < MaxEntries

DrawRoom == Len(draw) + Cardinality(DrawWriters) < MaxDraws

SessionRoom == Len(sessions) + Cardinality(SessionWriters) < MaxSessions

---------------------------------------------------------------------------
(* POST /api/enter *)

\* lines 114-117: the gate check, then draw_id = current_draw_id()
EnterStart(p, payload) ==
  LET l == [NoLoc EXCEPT !.op = "enter", !.name = payload.name,
                         !.email = payload.email]
  IN  /\ pc[p] = "idle"
      /\ UNCHANGED <<clock, gate, db, entry, draw, sessions>>
      /\ IF PaymentsEnabled
         THEN Step(p, "done", l, Reply([code |-> 403]))
         ELSE /\ FindEntry(current_draw_id(clock), payload.email) # None \/ EntryRoom
              /\ Goto(p, "enter_find", [l EXCEPT !.draw_id = current_draw_id(clock)])

\* the duplicate check left out
EntryExistsUnchecked(d, e) == FALSE

\* line 120: db and db["entry"].find_one(...)
EntryExists(d, e) == db /\ FindEntry(d, e) # None

\* lines 120-121: the duplicate check
EnterFind(p) ==
  /\ pc[p] = "enter_find"
  /\ UNCHANGED <<clock, gate, db, entry, draw, sessions>>
  /\ IF EntryExists(loc[p].draw_id, loc[p].email)
     THEN Finish(p, Reply([code |-> 400]))
     ELSE Goto(p, "enter_create", loc[p])

\* lines 123-126: create_document("entry", entry) and the response
EnterCreate(p) ==
  /\ pc[p] = "enter_create"
  /\ UNCHANGED <<clock, gate, db, draw, sessions>>
  /\ IF db
     THEN /\ entry' = create_entry(loc[p].name, loc[p].email, loc[p].draw_id)
          /\ Finish(p, Reply([code |-> 200, entry_id |-> Len(entry) + 1,
                              draw_id |-> loc[p].draw_id]))
     ELSE /\ entry' = entry
          /\ Finish(p, Reply([code |-> 500]))

---------------------------------------------------------------------------
(* POST /api/close-current *)

\* lines 132-134: draw_id = current_draw_id(), then the store check
CloseStart(p) ==
  LET d == current_draw_id(clock)
      l == [NoLoc EXCEPT !.op = "close", !.draw_id = d]
  IN  /\ pc[p] = "idle"
      /\ UNCHANGED <<clock, gate, db, entry, draw, sessions>>
      /\ IF ~db
         THEN Step(p, "done", l, Reply([code |-> 500]))
         ELSE /\ FindDraw(d) # None \/ DrawRoom
              /\ Goto(p, "close_window", l)

\* line 136: start, end = hour_window()
CloseWindow(p) ==
  LET w == hour_window(clock)
  IN  /\ pc[p] = "close_window"
      /\ UNCHANGED <<clock, gate, db, entry, draw, sessions>>
      /\ Goto(p, "close_load", [loc[p] EXCEPT !.start = w.start, !.end = w.end])

\* a draw among all the entries of the collection, of whatever draw
ChoicesAnyDraw(entries) == IF entry = <<>> THEN {None} ELSE Ids(entry)

\* line 159: random.choice(entries): any of the loaded entries, or None when
\* there is none (lines 139-157)
Choices(entries) == IF entries = {} THEN {None} ELSE entries

\* lines 138-159: entries = list(db["entry"].find({"draw_id": draw_id})) and
\* the winner drawn among them
CloseLoad(p) ==
  /\ pc[p] = "close_load"
  /\ UNCHANGED <<clock, gate, db, entry, draw, sessions>>
  /\ \E w \in Choices(EntriesOf(loc[p].draw_id)) :
       Goto(p, "close_update",
            [loc[p] EXCEPT !.entries = EntriesOf(loc[p].draw_id), !.winner = w])

\* entries_count counted again at the write instead of len(entries)
ClosedFieldsRecount(l) ==
  [draw_id |-> l.draw_id, starts_at |-> l.start, ends_at |-> l.end,
   status |-> "closed", prize |-> PRIZE,
   entries_count |-> CountEntries(l.draw_id),
   winner_entry_id |-> l.winner,
   winner_name |-> IF l.winner = None THEN NoStr ELSE entry[l.winner].name,
   winner_email |-> IF l.winner = None THEN NoStr ELSE entry[l.winner].email]

\* a close that writes the winner but leaves the status open
ClosedFieldsStillOpen(l) ==
  [draw_id |-> l.draw_id, starts_at |-> l.start, ends_at |-> l.end,
   status |-> "open", prize |-> PRIZE,
   entries_count |-> Cardinality(l.entries),
   winner_entry_id |-> l.winner,
   winner_name |-> IF l.winner = None THEN NoStr ELSE entry[l.winner].name,
   winner_email |-> IF l.winner = None THEN NoStr ELSE entry[l.winner].email]

\* lines 143-154 and 163-174: the fields close-current sets
ClosedFields(l) ==
  [draw_id |-> l.draw_id, starts_at |-> l.start, ends_at |-> l.end,
   status |-> "closed", prize |-> PRIZE,
   entries_count |-> Cardinality(l.entries),
   winner_entry_id |-> l.winner,
   winner_name |-> IF l.winner = None THEN NoStr ELSE entry[l.winner].name,
   winner_email |-> IF l.winner = None THEN NoStr ELSE entry[l.winner].email]

\* lines 141-157 and 161-181: the upsert of the Draw record and the response
CloseUpdate(p) ==
  /\ pc[p] = "close_update"
  /\ UNCHANGED <<clock, gate, db, entry, sessions>>
  /\ draw' = update_draw(loc[p].draw_id, ClosedFields(loc[p]))
  /\ Finish(p, Reply([code |-> 200,
                      winner_name |-> ClosedFields(loc[p]).winner_name,
                      winner_email |-> ClosedFields(loc[p]).winner_email]))

---------------------------------------------------------------------------
(* GET /api/status *)

\* line 64: draw_id = current_draw_id()
StatusStart(p) ==
  LET d == current_draw_id(clock)
  IN  /\ pc[p] = "idle"
      /\ UNCHANGED <<clock, gate, db, entry, draw, sessions>>
      /\ ~db \/ FindDraw(d) # None \/ DrawRoom
      /\ Goto(p, "status_window", [NoLoc EXCEPT !.op = "status", !.draw_id = d])

\* lines 92-108: the response of api_status
StatusReply(l, last) ==
  Reply([code |-> 200, draw_id |-> l.draw_id, starts_at |-> l.start,
         ends_at |-> l.end,
         status |-> IF l.existing = NoStr THEN "open" ELSE l.existing,
         entries_count |-> l.count, last_winner |-> last])

\* line 65: start, end = hour_window(); without a store nothing else is read
StatusWindow(p) ==
  LET w == hour_window(clock)
      l == [loc[p] EXCEPT !.start = w.start, !.end = w.end]
  IN  /\ pc[p] = "status_window"
      /\ UNCHANGED <<clock, gate, db, entry, draw, sessions>>
      /\ IF db
         THEN Goto(p, "status_find", l)
         ELSE Step(p, "done", [l EXCEPT !.count = 0],
                   StatusReply([l EXCEPT !.count = 0], <<>>))

\* existing.get("status") of the document find_one returns
StatusOf(d) == IF FindDraw(d) = None THEN NoStr ELSE draw[FindDraw(d)].status

\* lines 68-69: existing = db["draw"].find_one({"draw_id": draw_id})
StatusFind(p) ==
  /\ pc[p] = "status_find"
  /\ UNCHANGED <<clock, gate, db, entry, draw, sessions>>
  /\ IF FindDraw(loc[p].draw_id) = None
     THEN Goto(p, "status_create", loc[p])
     ELSE Goto(p, "status_count", [loc[p] EXCEPT !.existing = StatusOf(loc[p].draw_id)])

\* lines 71-79: create_document("draw", new_draw): insert_one
create_draw(d, w) == Append(draw, NewDraw(d, w))

StatusCreate(p) ==
  /\ pc[p] = "status_create"
  /\ UNCHANGED <<clock, gate, db, entry, sessions>>
  /\ draw' = create_draw(loc[p].draw_id, [start |-> loc[p].start, end |-> loc[p].end])
  /\ Goto(p, "status_refind", loc[p])

\* line 80: existing = db["draw"].find_one({"draw_id": draw_id})
StatusRefind(p) ==
  /\ pc[p] = "status_refind"
  /\ UNCHANGED <<clock, gate, db, entry, draw, sessions>>
  /\ Goto(p, "status_count", [loc[p] EXCEPT !.existing = StatusOf(loc[p].draw_id)])

\* line 84: entries_count = db["entry"].count_documents({"draw_id": draw_id})
StatusCount(p) ==
  /\ pc[p] = "status_count"
  /\ UNCHANGED <<clock, gate, db, entry, draw, sessions>>
  /\ Goto(p, "status_update", [loc[p] EXCEPT !.count = CountEntries(loc[p].draw_id)])

\* a refresh that also sets the status back to open
RefreshFieldsReopen(l) == [entries_count |-> l.count, status |-> "open"]

\* line 85: the fields api_status sets on the Draw record
RefreshFields(l) == [entries_count |-> l.count]

\* line 85: update_one({"draw_id": draw_id}, {"$set": ...}, upsert=True)
StatusUpdate(p) ==
  /\ pc[p] = "status_update"
  /\ UNCHANGED <<clock, gate, db, entry, sessions>>
  /\ draw' = update_draw(loc[p].draw_id, RefreshFields(loc[p]))
  /\ Goto(p, "status_last", loc[p])

\* line 90: find_one({"status": "closed"}, sort=[("ends_at", -1)]): a closed
\* Draw with the greatest ends_at, the first such in the collection
LastClosed ==
  LET closed == { i \in Ids(draw) : draw[i].status = "closed" }
      latest == { i \in closed : \A j \in closed : draw[j].ends_at <= draw[i].ends_at }
  IN  IF closed = {} THEN <<>> ELSE <<draw[Min(latest)]>>

\* lines 90-108: last_winner and the response
StatusLast(p) ==
  /\ pc[p] = "status_last"
  /\ UNCHANGED <<clock, gate, db, entry, draw, sessions>>
  /\ Finish(p, StatusReply(loc[p], LastClosed))

---------------------------------------------------------------------------
(* POST /api/pay/checkout-session *)

\* lines 187-190: the gate check, then draw_id = current_draw_id()
CheckoutStart(p, payload) ==
  LET l == [NoLoc EXCEPT !.op = "checkout", !.name = payload.name,
                         !.email = payload.email]
  IN  /\ pc[p] = "idle"
      /\ UNCHANGED <<clock, gate, db, entry, draw, sessions>>
      /\ IF ~PaymentsEnabled
         THEN Step(p, "done", l, Reply([code |-> 503]))
         ELSE /\ (db /\ FindEntry(current_draw_id(clock), payload.email) # None)
                   \/ SessionRoom
              /\ Goto(p, "checkout_find", [l EXCEPT !.draw_id = current_draw_id(clock)])

\* lines 193-194: the duplicate check before charging
CheckoutFind(p) ==
  /\ pc[p] = "checkout_find"
  /\ UNCHANGED <<clock, gate, db, entry, draw, sessions>>
  /\ IF EntryExists(loc[p].draw_id, loc[p].email)
     THEN Finish(p, Reply([code |-> 400]))
     ELSE Goto(p, "checkout_create", loc[p])

\* lines 208-212: the metadata of the session
Metadata(d, n, e) == [draw_id |-> d, name |-> n, email |-> e]

\* lines 197-218: stripe.checkout.Session.create, which may raise
CheckoutCreate(p) ==
  /\ pc[p] = "checkout_create"
  /\ UNCHANGED <<clock, gate, db, entry, draw>>
  /\ \/ /\ sessions' = Append(sessions,
                         [payment_status |-> "unpaid",
                          metadata |-> Metadata(loc[p].draw_id, loc[p].name,
                                                loc[p].email)])
        /\ Finish(p, Reply([code |-> 200, sid |-> Len(sessions) + 1]))
     \/ /\ sessions' = sessions
        /\ Finish(p, Reply([code |-> 500]))

---------------------------------------------------------------------------
(* GET /api/pay/confirm *)

\* a confirmation of session sid that is sure to insert nothing
Settled(sid) ==
  /\ sid \in Ids(sessions)
  /\ LET m == sessions[sid].metadata
     IN  \/ m.name = NoStr
         \/ m.email = NoStr
         \/ m.draw_id # None /\ FindEntry(m.draw_id, m.email) # None

\* the session_id of a request: one the provider holds, or 0, which it never
\* issued
SessionIds == Ids(sessions) \cup {0}

\* lines 223-224: the gate check
ConfirmStart(p, sid) ==
  LET l == [NoLoc EXCEPT !.op = "confirm", !.sid = sid]
  IN  /\ pc[p] = "idle"
      /\ UNCHANGED <<clock, gate, db, entry, draw, sessions>>
      /\ IF ~PaymentsEnabled
         THEN Step(p, "done", l, Reply([code |-> 503]))
         ELSE /\ Settled(sid) \/ EntryRoom
              /\ Goto(p, "confirm_retrieve", l)

\* the payment check left out
UnpaidIgnored(session) == FALSE

\* line 228: session.get("payment_status") != "paid"
Unpaid(session) == session.payment_status # "paid"

\* the draw_id computed again when the confirmation arrives
MetaDrawIdNow(m) == current_draw_id(clock)

\* line 232: meta.get("draw_id") or current_draw_id()
MetaDrawId(m) == IF m.draw_id # None THEN m.draw_id ELSE current_draw_id(clock)

\* only the name checked
IncompleteName(m) == m.name = NoStr

\* line 235: not (name and email)
Incomplete(m) == m.name = NoStr \/ m.email = NoStr

\* lines 227-236: Session.retrieve, the payment check and the metadata
ConfirmRetrieve(p) ==
  /\ pc[p] = "confirm_retrieve"
  /\ UNCHANGED <<clock, gate, db, entry, draw, sessions>>
  /\ IF loc[p].sid \notin Ids(sessions)
     THEN Finish(p, Reply([code |-> 500]))
     ELSE LET session == sessions[loc[p].sid]
              m == session.metadata
          IN  IF Unpaid(session)
              THEN Finish(p, Reply([code |-> 402]))
              ELSE IF Incomplete(m)
              THEN Finish(p, Reply([code |-> 400]))
              ELSE Goto(p, "confirm_find",
                        [loc[p] EXCEPT !.draw_id = MetaDrawId(m),
                                       !.name = m.name, !.email = m.email])

\* lines 239-240: idempotency: if the entry exists, return ok
ConfirmFind(p) ==
  /\ pc[p] = "confirm_find"
  /\ UNCHANGED <<clock, gate, db, entry, draw, sessions>>
  /\ IF EntryExists(loc[p].draw_id, loc[p].email)
     THEN Finish(p, Reply([code |-> 200]))
     ELSE Goto(p, "confirm_create", loc[p])

\* lines 242-248: create_document("entry", entry) and the response
ConfirmCreate(p) ==
  /\ pc[p] = "confirm_create"
  /\ UNCHANGED <<clock, gate, db, draw, sessions>>
  /\ IF db
     THEN /\ entry' = create_entry(loc[p].name, loc[p].email, loc[p].draw_id)
          /\ Finish(p, Reply([code |-> 200, entry_id |-> Len(entry) + 1,
                              draw_id |-> loc[p].draw_id]))
     ELSE /\ entry' = entry
          /\ Finish(p, Reply([code |-> 500]))

---------------------------------------------------------------------------
(* The environment *)

\* the response is delivered and the slot is free again
Return(p) ==
  /\ pc[p] = "done"
  /\ UNCHANGED <<clock, gate, db, entry, draw, sessions>>
  /\ Step(p, "idle", NoLoc, NoResp)

\* the wall clock passes into the next hour
Tick ==
  /\ clock < StartInstant + 60 * MaxTicks
  /\ clock' = clock + 60
  /\ UNCHANGED <<gate, db, entry, draw, sessions, pc, loc, resp>>

\* the wall clock passes to a later instant
Elapse ==
  /\ \E t \in ClockInstants : t > clock /\ clock' = t
  /\ UNCHANGED <<gate, db, entry, draw, sessions, pc, loc, resp>>

\* the participant pays the checkout session
Pay(sid) ==
  /\ sid \in Ids(sessions)
  /\ sessions[sid].payment_status = "unpaid"
  /\ sessions' = [sessions EXCEPT ![sid].payment_status = "paid"]
  /\ UNCHANGED <<clock, gate, db, entry, draw, pc, loc, resp>>

\* metadata of checkout sessions of the same provider account that this
\* service did not create: a field is missing
ForeignMetadata ==
  { Metadata(None, "Bob", "b@x.com"),
    Metadata(current_draw_id(clock), NoStr, "b@x.com"),
    Metadata(current_draw_id(clock), "Bob", NoStr) }

ForeignSession ==
  /\ gate
  /\ SessionRoom
  /\ \E m \in ForeignMetadata :
       sessions' = Append(sessions, [payment_status |-> "unpaid", metadata |-> m])
  /\ UNCHANGED <<clock, gate, db, entry, draw, pc, loc, resp>>

---------------------------------------------------------------------------
(* The specification *)

Init ==
  /\ clock = StartInstant
  /\ gate \in BOOLEAN
  /\ db \in BOOLEAN
  /\ entry = <<>>
  /\ draw = <<>>
  /\ sessions = <<>>
  /\ pc = [p \in Procs |-> "idle"]
  /\ loc = [p \in Procs |-> NoLoc]
  /\ resp = [p \in Procs |-> NoResp]

\* a request of POST /api/enter takes a step
Enter ==
  \/ \E p \in Procs, payload \in Payloads : EnterStart(p, payload)
  \/ \E p \in Procs : EnterFind(p)
  \/ \E p \in Procs : EnterCreate(p)

\* a request of POST /api/close-current takes a step
Close ==
  \/ \E p \in Procs : CloseStart(p)
  \/ \E p \in Procs : CloseWindow(p)
  \/ \E p \in Procs : CloseLoad(p)
  \/ \E p \in Procs : CloseUpdate(p)

\* a request of GET /api/status takes a step
Status ==
  \/ \E p \in Procs : StatusStart(p)
  \/ \E p \in Procs : StatusWindow(p)
  \/ \E p \in Procs : StatusFind(p)
  \/ \E p \in Procs : StatusCreate(p)
  \/ \E p \in Procs : StatusRefind(p)
  \/ \E p \in Procs : StatusCount(p)
  \/ \E p \in Procs : StatusUpdate(p)
  \/ \E p \in Procs : StatusLast(p)

\* a request of POST /api/pay/checkout-session takes a step
Checkout ==
  \/ \E p \in Procs, payload \in Payloads : CheckoutStart(p, payload)
  \/ \E p \in Procs : CheckoutFind(p)
  \/ \E p \in Procs : CheckoutCreate(p)

\* a request of GET /api/pay/confirm takes a step
Confirm ==
  \/ \E p \in Procs, sid \in SessionIds : ConfirmStart(p, sid)
  \/ \E p \in Procs : ConfirmRetrieve(p)
  \/ \E p \in Procs : ConfirmFind(p)
  \/ \E p \in Procs : ConfirmCreate(p)

\* the clients and the clock take a step
Environment ==
  \/ \E p \in Procs : Return(p)
  \/ Tick

\* the payment provider takes a step
Provider ==
  \/ \E sid \in Ids(sessions) : Pay(sid)
  \/ ForeignSession

Next == Enter \/ Close \/ Status \/ Checkout \/ Confirm \/ Environment \/ Provider

Spec == Init /\ [][Next]_vars

\* the admission paths alone: no request reads or writes the "draw" collection
NextAdmit == Enter \/ Checkout \/ Confirm \/ Environment \/ Provider

SpecAdmit == Init /\ [][NextAdmit]_vars

\* the admission paths when no two requests overlap: a request starts only
\* once every other one has finished
NextSeq ==
  /\ NextAdmit
  /\ \A p \in Procs :
       pc[p] = "idle" /\ pc'[p] # "idle"
         => \A q \in Procs \ {p} : pc[q] \in {"idle", "done"}

SpecSeq == Init /\ [][NextSeq]_vars

\* the draw lifecycle with direct admission
NextDraw == Enter \/ Close \/ Status \/ Environment

SpecDraw == Init /\ [][NextDraw]_vars

---------------------------------------------------------------------------
(* Claims *)

\* the winner fields of a Draw record
Winner(doc) == <<doc.winner_entry_id, doc.winner_name, doc.winner_email>>

\* request p has finished handler o
Done(p, o) == pc[p] = "done" /\ loc[p].op = o

\* C1: once a Draw record is closed its winner fields never change, whatever
\* enter, status and close-current requests follow the first close
C1_ClosedWinnerNeverChanges ==
  [][\A i \in Ids(draw) :
       draw[i].status = "closed" => Winner(draw'[i]) = Winner(draw[i])]_vars

\* C2: two close-current requests of the same draw_id whose steps interleave
\* (both have loaded the entries and drawn, neither has written yet) have
\* drawn the same winner, the one both will return and store
C2_ConcurrentClosesAgree ==
  \A p, q \in Procs :
    (/\ pc[p] = "close_update"
     /\ pc[q] = "close_update"
     /\ loc[p].draw_id = loc[q].draw_id)
    => loc[p].winner = loc[q].winner

\* C3: at most one Entry per (draw_id, email) in every reachable state
C3_OneEntryPerEmail ==
  \A i, j \in Ids(entry) :
    (entry[i].draw_id = entry[j].draw_id /\ entry[i].email = entry[j].email)
      => i = j

\* the Entry records of draw d with email e
Matching(d, e) == { i \in Ids(entry) : entry[i].draw_id = d /\ entry[i].email = e }

\* request p takes the step that leaves pc q
Leaves(p, q) == pc[p] = q /\ pc'[p] # q

\* C4: payment gate off, store available, no two requests overlapping: an
\* enter_draw that finds no Entry for its (draw_id, email) creates exactly one
\* and returns its entry_id, one that finds an Entry fails with 400 and
\* creates nothing, and no (draw_id, email) ever has two Entry records
C4_SecondEnterRejected ==
  /\ []((~gate /\ db) =>
          \A i \in Ids(entry) :
            Matching(entry[i].draw_id, entry[i].email) = {i})
  /\ [][(~gate /\ db) =>
          \A p \in Procs :
            /\ Leaves(p, "enter_find") =>
                 IF Matching(loc[p].draw_id, loc[p].email) # {}
                 THEN pc'[p] = "done" /\ resp'[p].code = 400 /\ entry' = entry
                 ELSE pc'[p] = "enter_create" /\ entry' = entry
            /\ Leaves(p, "enter_create") =>
                 /\ Matching(loc[p].draw_id, loc[p].email) = {}
                 /\ entry' = Append(entry, [name |-> loc[p].name,
                                            email |-> loc[p].email,
                                            draw_id |-> loc[p].draw_id])
                 /\ pc'[p] = "done"
                 /\ resp'[p].code = 200
                 /\ resp'[p].entry_id = Len(entry')]_vars

\* C4 witness: a second enter_draw has failed with 400 and the first one's
\* Entry is the only one of its (draw_id, email)
C4_Witness ==
  \E p \in Procs :
    /\ ~gate /\ db
    /\ Done(p, "enter") /\ resp[p].code = 400
    /\ Cardinality(Matching(loc[p].draw_id, loc[p].email)) = 1

\* C5: a close-current with the store available loads the entries of its
\* draw_id and may draw any one of them; its write leaves the Draw record of
\* that draw_id closed, entries_count the number loaded, the winner fields
\* null when none was loaded and else those of one loaded entry
C5_CloseOutcome ==
  /\ [](\A p \in Procs :
          pc[p] = "close_load" =>
            \A w \in EntriesOf(loc[p].draw_id) :
              ENABLED (CloseLoad(p) /\ loc'[p].winner = w))
  /\ [][\A p \in Procs :
          /\ Leaves(p, "close_load") =>
               /\ pc'[p] = "close_update"
               /\ loc'[p].entries = EntriesOf(loc[p].draw_id)
               /\ draw' = draw
          /\ Leaves(p, "close_update") =>
               LET d == loc[p].draw_id
                   E == loc[p].entries
                   doc == draw'[FindIn(draw', d)]
               IN  /\ FindIn(draw', d) # None
                   /\ doc.status = "closed"
                   /\ doc.entries_count = Cardinality(E)
                   /\ IF E = {}
                      THEN Winner(doc) = <<None, NoStr, NoStr>>
                      ELSE \E w \in E :
                             /\ Winner(doc) = <<w, entry[w].name, entry[w].email>>
                             /\ entry[w].draw_id = d
                   /\ pc'[p] = "done" /\ resp'[p].code = 200
                   /\ resp'[p].winner_name = doc.winner_name
                   /\ resp'[p].winner_email = doc.winner_email]_vars

\* C5 witness: a close-current that loaded two entries has written the Draw
\* record, with the second of them as the winner
C5_Witness ==
  \E p \in Procs :
    /\ Done(p, "close") /\ resp[p].code = 200
    /\ Cardinality(loc[p].entries) = 2
    /\ FindDraw(loc[p].draw_id) # None
    /\ LET doc == draw[FindDraw(loc[p].draw_id)]
       IN  /\ doc.status = "closed"
           /\ doc.entries_count = 2
           /\ doc.winner_entry_id = 2
           /\ doc.winner_email = entry[2].email

\* the session that confirmation p asked for exists
Known(p) == loc[p].sid \in Ids(sessions)

\* the metadata of the session that confirmation p asked for
Meta(p) == sessions[loc[p].sid].metadata

\* C6: with the store available, every confirm_checkout of a paid session
\* with complete metadata that has returned success leaves exactly one Entry
\* for the session's (draw_id, email), however often it is called
C6_ConfirmIdempotent ==
  \A p \in Procs :
    (/\ db
     /\ Done(p, "confirm") /\ resp[p].code = 200
     /\ Meta(p).draw_id # None)
    => Cardinality(Matching(Meta(p).draw_id, Meta(p).email)) = 1

\* C7: with the payment gate on, a confirm_checkout that retrieves a session
\* whose payment status is not paid fails with 402 and leaves the Entry
\* records as they are; no confirmation goes on to the duplicate check or the
\* insert for an unpaid session
C7_UnpaidRejected ==
  /\ [](\A p \in Procs :
          pc[p] \in {"confirm_find", "confirm_create"}
            => sessions[loc[p].sid].payment_status = "paid")
  /\ [][\A p \in Procs :
          (/\ gate
           /\ Leaves(p, "confirm_retrieve")
           /\ Known(p)
           /\ sessions[loc[p].sid].payment_status # "paid")
          => /\ pc'[p] = "done"
             /\ resp'[p].code = 402
             /\ entry' = entry]_vars

\* C7 witness: a confirmation of a session that is still unpaid has failed
\* with 402
C7_Witness ==
  \E p \in Procs :
    /\ gate
    /\ Done(p, "confirm") /\ resp[p].code = 402
    /\ Known(p) /\ sessions[loc[p].sid].payment_status = "unpaid"

\* C8 as claimed: a confirm_checkout of a session whose metadata lacks
\* draw_id, name or email never returns success
C8_MissingFieldRejected ==
  \A p \in Procs :
    (/\ Done(p, "confirm") /\ Known(p)
     /\ (Meta(p).draw_id = None \/ Meta(p).name = NoStr \/ Meta(p).email = NoStr))
    => resp[p].code # 200

\* C8 as amended: a confirm_checkout of a paid session whose metadata lacks
\* name or email fails with 400 and creates no Entry; when only draw_id is
\* missing it goes on with the draw_id of the current hour
C8_MissingNameOrEmailRejected ==
  /\ [](\A p \in Procs :
          (/\ Done(p, "confirm") /\ Known(p)
           /\ (Meta(p).name = NoStr \/ Meta(p).email = NoStr))
          => resp[p].code # 200)
  /\ [][\A p \in Procs :
          (/\ Leaves(p, "confirm_retrieve")
           /\ Known(p)
           /\ sessions[loc[p].sid].payment_status = "paid")
          => IF Meta(p).name = NoStr \/ Meta(p).email = NoStr
             THEN pc'[p] = "done" /\ resp'[p].code = 400 /\ entry' = entry
             ELSE /\ pc'[p] = "confirm_find"
                  /\ Meta(p).draw_id = None
                       => loc'[p].draw_id = current_draw_id(clock)]_vars

\* C8 witness: a confirmation of a paid session without an email has failed
\* with 400
C8_Witness ==
  \E p \in Procs :
    /\ Done(p, "confirm") /\ resp[p].code = 400
    /\ Known(p)
    /\ sessions[loc[p].sid].payment_status = "paid"
    /\ Meta(p).email = NoStr

\* C9: create_checkout_session embeds the draw_id of the hour it started in
\* and the name and email of its request in the session metadata, and the
\* Entry that confirm_checkout creates for that session carries exactly these
C9_MetadataRoundTrip ==
  [][\A p \in Procs :
       /\ (pc[p] = "idle" /\ pc'[p] = "checkout_find") =>
            /\ loc'[p].draw_id = current_draw_id(clock)
            /\ [name |-> loc'[p].name, email |-> loc'[p].email] \in Payloads
       /\ (Leaves(p, "checkout_create") /\ sessions' # sessions) =>
            sessions' = Append(sessions,
                          [payment_status |-> "unpaid",
                           metadata |-> [draw_id |-> loc[p].draw_id,
                                         name |-> loc[p].name,
                                         email |-> loc[p].email]])
       /\ (Leaves(p, "confirm_create") /\ db /\ Meta(p).draw_id # None) =>
            entry' = Append(entry, [name |-> Meta(p).name,
                                    email |-> Meta(p).email,
                                    draw_id |-> Meta(p).draw_id])]_vars

\* C9 witness: a confirmation has created the Entry of a checkout started in
\* an hour that has passed, with the draw_id of that hour
C9_Witness ==
  \E p \in Procs :
    /\ Done(p, "confirm") /\ resp[p].code = 200 /\ resp[p].entry_id # None
    /\ Meta(p).draw_id # None
    /\ entry[resp[p].entry_id].draw_id = Meta(p).draw_id
    /\ Meta(p).draw_id # current_draw_id(clock)

\* C10: with the payment gate on, every enter_draw fails with 403 at once and
\* creates no Entry, and only confirm_checkout adds an Entry
C10_GateBlocksEnter ==
  /\ [](gate => \A p \in Procs : pc[p] \notin {"enter_find", "enter_create"})
  /\ [][gate =>
          /\ \A p \in Procs :
               (pc[p] = "idle" /\ loc'[p].op = "enter")
                 => pc'[p] = "done" /\ resp'[p].code = 403 /\ entry' = entry
          /\ entry' # entry
               => \E p \in Procs : pc[p] = "confirm_create" /\ pc'[p] = "done"]_vars

\* C10 witness: with the gate on an enter_draw has failed with 403, while a
\* confirmation has added an Entry
C10_Witness ==
  \E p \in Procs :
    /\ gate
    /\ Done(p, "enter") /\ resp[p].code = 403
    /\ entry # <<>>

\* C11: create_checkout_session fails with 503 at once when the payment gate
\* is not configured, and with 400 when its duplicate check finds an Entry for
\* (draw_id of the hour it started in, email); neither creates a checkout
\* session or changes the store
C11_CheckoutRejected ==
  [][\A p \in Procs :
       /\ (pc[p] = "idle" /\ loc'[p].op = "checkout") =>
            /\ sessions' = sessions /\ entry' = entry /\ draw' = draw
            /\ IF gate
               THEN /\ pc'[p] = "checkout_find"
                    /\ loc'[p].draw_id = current_draw_id(clock)
               ELSE pc'[p] = "done" /\ resp'[p].code = 503
       /\ (Leaves(p, "checkout_find")
           /\ db /\ Matching(loc[p].draw_id, loc[p].email) # {}) =>
            /\ pc'[p] = "done" /\ resp'[p].code = 400
            /\ sessions' = sessions /\ entry' = entry /\ draw' = draw]_vars

\* C11 witness: a checkout for an email already entered in this hour has
\* failed with 400
C11_Witness ==
  \E p \in Procs :
    /\ gate /\ db
    /\ Done(p, "checkout") /\ resp[p].code = 400
    /\ Matching(loc[p].draw_id, loc[p].email) # {}

---------------------------------------------------------------------------
(* The hourly trigger: close-current is invoked in every hour *)

\* a Draw record of draw_id d is closed
Closed(d) == \E i \in Ids(draw) : draw[i].draw_id = d /\ draw[i].status = "closed"

\* close-current has been invoked for draw_id d: it is running or has written
CloseInvoked(d) ==
  \/ Closed(d)
  \/ \E p \in Procs : /\ pc[p] \in {"close_window", "close_load", "close_update"}
                      /\ loc[p].draw_id = d

\* the hour passes only after the trigger has invoked close-current in it
TickHourly ==
  /\ db => CloseInvoked(current_draw_id(clock))
  /\ Tick

\* the step of the request in flight in slot p, or the return of its response
Progress(p) ==
  \/ EnterFind(p) \/ EnterCreate(p)
  \/ CloseWindow(p) \/ CloseLoad(p) \/ CloseUpdate(p)
  \/ CheckoutFind(p) \/ CheckoutCreate(p)
  \/ ConfirmRetrieve(p) \/ ConfirmFind(p) \/ ConfirmCreate(p)
  \/ Return(p)

NextLive ==
  \/ Enter \/ Close \/ Checkout \/ Confirm
  \/ \E sid \in Ids(sessions) : Pay(sid)
  \/ \E p \in Procs : Return(p)
  \/ TickHourly

\* every request runs to its response, and the trigger keeps firing
SpecLive ==
  /\ Init /\ [][NextLive]_vars
  /\ \A p \in Procs : WF_vars(Progress(p))
  /\ SF_vars(\E p \in Procs : CloseStart(p))

\* the draw_id of every hour the clock reaches
LiveDrawIds == { current_draw_id(StartInstant + 60 * k) : k \in 0 .. MaxTicks }

---------------------------------------------------------------------------
(* The clock functions on their own: any instant, read by a status request *)

InitClock ==
  /\ clock \in ClockInstants
  /\ gate = FALSE
  /\ db = FALSE
  /\ entry = <<>>
  /\ draw = <<>>
  /\ sessions = <<>>
  /\ pc = [p \in Procs |-> "idle"]
  /\ loc = [p \in Procs |-> NoLoc]
  /\ resp = [p \in Procs |-> NoResp]

NextClock ==
  \/ Elapse
  \/ StatusStart("r1")
  \/ StatusWindow("r1")
  \/ Return("r1")

SpecClock == InitClock /\ [][NextClock]_vars

\* the number a string of digits denotes
RECURSIVE TokenValue(_)
TokenValue(t) ==
  IF t = <<>> THEN 0 ELSE 10 * TokenValue(SubSeq(t, 1, Len(t) - 1)) + t[Len(t)]

\* string comparison, character by character
RECURSIVE TokenLess(_, _)
TokenLess(a, b) ==
  IF a = <<>> THEN b # <<>>
  ELSE IF b = <<>> THEN FALSE
  ELSE IF a[1] # b[1] THEN a[1] < b[1]
  ELSE TokenLess(Tail(a), Tail(b))

\* C12: instants of the same UTC hour get the same draw_id, an instant of a
\* later hour gets a different one that compares greater as a zero-padded
\* token of ten digits; hour_window gives the top of the hour as start and one
\* hour later as end, so start <= instant < end; a request reads these values
C12_DrawIdAndWindow ==
  [][LET a == current_draw_id(clock)
         b == current_draw_id(clock')
         w == hour_window(clock)
     IN  /\ Len(DrawIdToken(clock)) = 10
         /\ TokenValue(DrawIdToken(clock)) = a
         /\ (clock' \div 60 = clock \div 60) =>
              a = b /\ DrawIdToken(clock') = DrawIdToken(clock)
         /\ (clock' \div 60 > clock \div 60) =>
              /\ a # b /\ a < b
              /\ TokenLess(DrawIdToken(clock), DrawIdToken(clock'))
         /\ w.start % 60 = 0
         /\ w.start <= clock /\ clock < w.end /\ clock - w.start < 60
         /\ w.end = w.start + 60
         /\ \A p \in Procs :
              /\ (pc[p] = "idle" /\ loc'[p].op = "status") =>
                   loc'[p].draw_id = a
              /\ Leaves(p, "status_window") =>
                   /\ resp'[p].starts_at = w.start
                   /\ resp'[p].ends_at = w.end]_vars

\* C12 witness: after midnight a status request has answered with the draw_id
\* and the window of the hour the clock is in, at an instant off the hour
C12_Witness ==
  /\ Done("r1", "status")
  /\ clock >= 24 * 60 /\ clock % 60 # 0
  /\ resp["r1"].draw_id = current_draw_id(clock)
  /\ resp["r1"].starts_at = hour_window(clock).start
  /\ resp["r1"].starts_at < clock

\* C13: the draw collection never holds two Draw records with the same
\* draw_id, whatever status and close-current requests run together
C13_OneDrawPerDrawId ==
  \A i, j \in Ids(draw) : draw[i].draw_id = draw[j].draw_id => i = j

\* C14: a Draw record that is closed stays closed, a record is only ever open
\* or closed, what find_one({"draw_id": d}) returns never goes back from
\* closed, a status request that reads a closed draw sees it closed, and its
\* response carries the status it read
C14_ClosedIsTerminal ==
  [][/\ \A i \in Ids(draw) :
          /\ draw[i].status \in {"open", "closed"}
          /\ draw[i].status = "closed" =>
               /\ i \in Ids(draw')
               /\ draw'[i].draw_id = draw[i].draw_id
               /\ draw'[i].status = "closed"
     /\ \A i \in Ids(draw) :
          StatusOf(draw[i].draw_id) = "closed" =>
            (StatusOf(draw[i].draw_id))' = "closed"
     /\ \A p \in Procs :
          /\ ((Leaves(p, "status_find") \/ Leaves(p, "status_refind"))
              /\ StatusOf(loc[p].draw_id) = "closed") =>
               loc'[p].existing = "closed"
          /\ Leaves(p, "status_last") =>
               /\ loc[p].existing \in {"open", "closed"}
               /\ resp'[p].status = loc[p].existing]_vars

\* C14 witness: a status request has answered closed for a draw closed before,
\* while an entry admitted after the close exists
C14_Witness ==
  \E p \in Procs :
    /\ Done(p, "status") /\ resp[p].status = "closed"
    /\ StatusOf(loc[p].draw_id) = "closed"
    /\ draw[FindDraw(loc[p].draw_id)].entries_count > 0

\* C15: the window a request stores or returns is the window of the hour its
\* draw_id names: starts_at printed as YYYYMMDDHH is the draw_id and ends_at is
\* one hour later, in every Draw record, in every status response and in
\* every close-current about to write
C15_WindowMatchesDrawId ==
  /\ \A i \in Ids(draw) :
       draw[i].starts_at # None =>
         /\ current_draw_id(draw[i].starts_at) = draw[i].draw_id
         /\ draw[i].ends_at = draw[i].starts_at + 60
  /\ \A p \in Procs :
       /\ (Done(p, "status") /\ resp[p].code = 200) =>
            current_draw_id(resp[p].starts_at) = resp[p].draw_id
       /\ pc[p] = "close_update" =>
            current_draw_id(loc[p].start) = loc[p].draw_id

\* C16: a status request whose update_one meets a closed Draw record leaves
\* the draw collection as it was
C16_StatusLeavesClosedDraw ==
  [][\A p \in Procs :
       (Leaves(p, "status_update") /\ StatusOf(loc[p].draw_id) = "closed") =>
         draw' = draw]_vars

\* C17: an Entry inserted for a draw_id between the load and the write of a
\* close-current of that draw_id is stored and its request succeeds; it is not
\* among the entries that close loaded, is not the winner that close writes,
\* and is not counted in the entries_count that close writes
C17_LateEntryLeftOut ==
  [][\A p \in Procs :
       /\ pc[p] = "close_update" =>
            \A q \in Procs :
              (Leaves(q, "enter_create") /\ loc[q].draw_id = loc[p].draw_id) =>
                /\ entry' = Append(entry, NewEntry(loc[q].name, loc[q].email,
                                                   loc[q].draw_id))
                /\ resp'[q].code = 200 /\ resp'[q].entry_id = Len(entry')
                /\ Len(entry') \notin loc[p].entries
                /\ loc[p].winner # Len(entry')
       /\ Leaves(p, "close_update") =>
            LET d == loc[p].draw_id
                late == EntriesOf(d) \ loc[p].entries
                doc == draw'[FindIn(draw', d)]
            IN  /\ entry' = entry
                /\ doc.winner_entry_id \notin late
                /\ doc.entries_count = CountEntries(d) - Cardinality(late)]_vars

\* C17 witness: a close-current that loaded one entry has written it as the
\* winner with entries_count 1, while a second entry of the same draw_id,
\* not among those loaded, is stored and its request answered
C17_Witness ==
  \E p, q \in Procs :
    /\ Done(p, "close") /\ loc[p].entries = {1}
    /\ Done(q, "enter") /\ resp[q].code = 200 /\ resp[q].entry_id = 2
    /\ entry[2].draw_id = loc[p].draw_id
    /\ LET doc == draw[FindDraw(loc[p].draw_id)]
       IN  doc.winner_entry_id = 1 /\ doc.entries_count = 1

\* C18: the winner_entry_id of every closed Draw record is the _id of a
\* stored Entry of the same draw_id whose name and email are the record's
\* winner_name and winner_email
C18_WinnerIsAnEntry ==
  \A i \in Ids(draw) :
    (draw[i].status = "closed" /\ draw[i].winner_entry_id # None) =>
      LET w == draw[i].winner_entry_id
      IN  /\ w \in Ids(entry)
          /\ entry[w].draw_id = draw[i].draw_id
          /\ entry[w].name = draw[i].winner_name
          /\ entry[w].email = draw[i].winner_email

\* C18 witness: a draw closed with the second stored entry as its winner,
\* the first stored entry being of the hour before
C18_Witness ==
  \E i \in Ids(draw) :
    /\ draw[i].status = "closed" /\ draw[i].winner_entry_id = 2
    /\ entry[1].draw_id # draw[i].draw_id
    /\ entry[2].draw_id = draw[i].draw_id

\* C19: every closed Draw record has null winner fields exactly when its
\* entries_count is 0
C19_NullWinnerIffNoEntries ==
  \A i \in Ids(draw) :
    draw[i].status = "closed" =>
      (Winner(draw[i]) = <<None, NoStr, NoStr>> <=> draw[i].entries_count = 0)

====
